---------------------------- MODULE Spec2Model ----------------------------
(***************************************************************************)
(* Model of the three entry points of saritasa-pr-approved-action:         *)
(*   "approve1"  src/unnamed/part_001  isApproved, sequential fetches,     *)
(*                                     trigger-action filter               *)
(*   "approve2"  src/unnamed/part_002  isApproved, Promise.all fetches     *)
(*   "leads"     src/src/main.ts       areLeadReviewersInvited             *)
(* One behaviour is one invocation of run().  Every await is a point where *)
(* the invocation waits for a response; the synchronous code between two   *)
(* awaits is one action.  Calls to @actions/core, the REST client and      *)
(* console are recorded in `log` in program order.                         *)
(***************************************************************************)
EXTENDS Integers, Sequences, FiniteSets, TLC

VARIABLES
    variant,                \* which entry point is running
    pc,                     \* position of run()
    githubEnv,              \* GithubEnv read from process.env
    payload,                \* the webhook payload (event file / context.payload)
    amountInput,            \* getInput('requiredApprovesAmount'), a string
    requiredApprovesAmount, \* result of getRequiredApprovesAmount()
    getContentResponse,     \* response of repos.getContent
    leadReviewers,          \* parse(...).reviewers.defaults
    postedReviews,          \* response of pulls.listReviews
    pendingReviewers,       \* response of pulls.listRequestedReviewers
    codeReviewProgress,     \* Map<string, ReviewState>, in insertion order
    requestedReviewers,     \* Set<string> of main.ts
    verdict,                \* isApproved / areLeadReviewersInvited
    log                     \* calls made so far, in order

vars == <<variant, pc, githubEnv, payload, amountInput, requiredApprovesAmount,
          getContentResponse, leadReviewers, postedReviews, pendingReviewers,
          codeReviewProgress, requestedReviewers, verdict, log>>

-----------------------------------------------------------------------------
(* Bounds of the explored inputs *)

MaxReviews == 2
MaxPending == 2
MaxLeads == 2
MaxInputLen == 3

(* Platform usernames; two that differ only in case. *)
Logins == {"a", "A"}
NullLogin == "<null>"

Approved == "APPROVED"
ChangesRequested == "CHANGES_REQUESTED"
Pending == "PENDING"
Commented == "COMMENTED"
PostedStates == {Approved, ChangesRequested, Commented}

Variants == {"approve1", "approve2", "leads"}
ApproveVariants == {"approve1", "approve2"}

Range(s) == {s[i] : i \in 1..Len(s)}

SeqsUpTo(S, n) == UNION {[1..k -> S] : k \in 0..n}

IsInjective(s) == \A i, j \in 1..Len(s) : s[i] = s[j] => i = j

-----------------------------------------------------------------------------
(* Inputs *)

EnvValues == {"<null>", "set"}
GithubEnvs == [token : EnvValues, repositoryPath : EnvValues, eventPath : EnvValues]
NoEnv == [token |-> "<unread>", repositoryPath |-> "<unread>", eventPath |-> "<unread>"]

Actions == {"submitted", "review_requested", "opened", "<undefined>"}
Payloads == [readable : {TRUE}, pull_request : BOOLEAN, action : Actions]
\* part_002 and main.ts never read payload.action
PayloadsWithoutAction == [readable : {TRUE}, pull_request : BOOLEAN, action : {"<unread>"}]
UnreadablePayload == [readable |-> FALSE, pull_request |-> FALSE, action |-> "<undefined>"]
NoPayload == [readable |-> FALSE, pull_request |-> FALSE, action |-> "<unread>"]

\* a review of a deleted account has no login; its state is never read, and
\* an approval is the one that would matter if it were
ReviewEntries ==
    [login : Logins, state : PostedStates] \cup {[login |-> NullLogin, state |-> Approved]}
ReviewLists == SeqsUpTo(ReviewEntries, MaxReviews)
\* listRequestedReviewers returns each user at most once
PendingLists == {s \in SeqsUpTo(Logins, MaxPending) : IsInjective(s)}

NoResponse == [status |-> "none", data |-> <<>>]
ErrorResponse == [status |-> "error", data |-> <<>>]
OkResponse(d) == [status |-> "ok", data |-> d]
\* a request is answered with data, or it throws
ReviewResponses == {OkResponse(d) : d \in ReviewLists} \cup {ErrorResponse}
RequestedResponses == {OkResponse(d) : d \in PendingLists} \cup {ErrorResponse}

\* Characters of the requiredApprovesAmount input
Digits == {"0", "1", "2", "3", "4", "5", "6", "7", "8", "9"}
AmountChars == {"0", "2", "-", ".", "a"}
AmountStrings == SeqsUpTo(AmountChars, MaxInputLen)
\* the inputs tried by a whole invocation
AmountInputs == {<<>>, <<"2">>, <<"0">>, <<"a">>, <<"2", ".", "2">>}

\* The value of reviewers.defaults after decoding and parsing the config
LeadLists == SeqsUpTo(Logins, MaxLeads)
\* reviewers.defaults given as one string, which JavaScript iterates by character
StringConfigs == {<<>>, <<"a">>, <<"a", "A">>}
ParsedConfigs ==
    {[kind |-> "list", items |-> l] : l \in LeadLists}
    \cup {[kind |-> "string", items |-> l] : l \in StringConfigs}
    \cup {[kind |-> k, items |-> <<>>] : k \in {"nonIterable", "noReviewersKey", "syntaxError"}}
ContentResponses ==
    {[status |-> "ok", hasContent |-> TRUE, parsed |-> p] : p \in ParsedConfigs}
    \cup {[status |-> "ok", hasContent |-> FALSE, parsed |-> [kind |-> "none", items |-> <<>>]]}
NoContentResponse == [status |-> "none", hasContent |-> FALSE, parsed |-> [kind |-> "none", items |-> <<>>]]
ErrorContentResponse == [status |-> "error", hasContent |-> FALSE, parsed |-> [kind |-> "none", items |-> <<>>]]
NoLeadReviewers == [kind |-> "unset", items |-> <<>>]

-----------------------------------------------------------------------------
(* Calls recorded in the log *)

SetFailed(msg) == [op |-> "setFailed", arg |-> msg]
SetOutput(name, value) == [op |-> "setOutput:" \o name, arg |-> value]
Fetch(what) == [op |-> "fetch", arg |-> what]
Response(what) == [op |-> "response", arg |-> what]
Step(what) == [op |-> "step", arg |-> what]
Info == [op |-> "info", arg |-> "isn't supported"]

EnvMessage == "GITHUB_TOKEN, GITHUB_REPOSITORY or GITHUB_EVENT doesn't set"
PrMessage == "This event doesn't contain PR"
AmountMessage == "Incorrect value of the requiredApprovesAmount input"
ContentMessage == "Can't process the config file"
LeadsMessage == "Could not read lead reviewers from the config"
ErrorMessage == "error.message"

IsApprovedOutput == "isApproved"
AreLeadsInvitedOutput == "areLeadReviewersInvited"

-----------------------------------------------------------------------------
(* JavaScript numbers, as far as the threshold needs them: NaN, or a       *)
(* decimal with at most MaxInputLen fractional digits kept as val / Scale. *)

RECURSIVE Pow10(_)
Pow10(n) == IF n = 0 THEN 1 ELSE 10 * Pow10(n - 1)

Scale == Pow10(MaxInputLen)

NaN == [kind |-> "nan", val |-> 0]
Num(scaled) == [kind |-> "num", val |-> scaled]
Int2Num(n) == Num(n * Scale)
NoAmount == [kind |-> "unset", val |-> 0]

DigitVal(c) == CHOOSE d \in 0..9 : <<"0", "1", "2", "3", "4", "5", "6", "7", "8", "9">>[d + 1] = c

AllDigits(s) == \A i \in 1..Len(s) : s[i] \in Digits

RECURSIVE DigitsValue(_)
DigitsValue(s) ==
    IF s = <<>> THEN 0
    ELSE 10 * DigitsValue(SubSeq(s, 1, Len(s) - 1)) + DigitVal(s[Len(s)])

\* the longest prefix of s made of digits
RECURSIVE DigitPrefix(_)
DigitPrefix(s) ==
    IF s = <<>> \/ Head(s) \notin Digits THEN <<>>
    ELSE <<Head(s)>> \o DigitPrefix(Tail(s))

HasSign(s) == s # <<>> /\ Head(s) \in {"-", "+"}
SignOf(s) == IF s # <<>> /\ Head(s) = "-" THEN -1 ELSE 1
Unsigned(s) == IF HasSign(s) THEN Tail(s) ELSE s

\* /\d{1,2}/.test(s): unanchored, so any digit anywhere matches
RegexDigitTest(s) == \E i \in 1..Len(s) : s[i] \in Digits

\* Number.parseInt(s, 10): optional sign, then the longest run of digits;
\* whatever follows is ignored; no digit is NaN
ParseInt(s) ==
    LET d == DigitPrefix(Unsigned(s))
    IN  IF d = <<>> THEN NaN ELSE Int2Num(SignOf(s) * DigitsValue(d))

DotPositions(s) == {i \in 1..Len(s) : s[i] = "."}

\* Number(s): the whole string must be a decimal literal
\* (sign? digits+ [. digits*] | sign? . digits+); the empty string is 0
ToNumber(s) ==
    LET u == Unsigned(s)
        dots == DotPositions(u)
    IN  IF s = <<>> THEN Int2Num(0)
        ELSE IF dots = {} THEN
            IF u # <<>> /\ AllDigits(u) THEN Int2Num(SignOf(s) * DigitsValue(u)) ELSE NaN
        ELSE IF Cardinality(dots) = 1 THEN
            LET d == CHOOSE i \in dots : TRUE
                ip == SubSeq(u, 1, d - 1)
                fp == SubSeq(u, d + 1, Len(u))
            IN  IF AllDigits(ip) /\ AllDigits(fp) /\ (ip # <<>> \/ fp # <<>>)
                THEN Num(SignOf(s) * (DigitsValue(ip) * Scale
                                      + DigitsValue(fp) * Pow10(MaxInputLen - Len(fp))))
                ELSE NaN
        ELSE NaN

IsNaN(n) == n.kind = "nan"
\* n > 0, n <= 0 and k >= n; every comparison with NaN is false
GreaterThanZero(n) == n.kind = "num" /\ n.val > 0
LessOrEqualZero(n) == n.kind = "num" /\ n.val <= 0
IntGreaterOrEqual(k, n) == n.kind = "num" /\ k * Scale >= n.val

DEFAULT_AMOUNT == 1

\* part_001: getRequiredApprovesAmount
getRequiredApprovesAmount1(s) ==
    IF RegexDigitTest(s) /\ GreaterThanZero(ParseInt(s))
    THEN ParseInt(s)
    ELSE Int2Num(DEFAULT_AMOUNT)

\* part_002: getRequiredApprovesAmount; the value returned, and whether
\* setFailed was called on the way
getRequiredApprovesAmount2(s) ==
    IF s = <<>> THEN Int2Num(DEFAULT_AMOUNT) ELSE ToNumber(s)

AmountFails2(s) ==
    s # <<>> /\ (IsNaN(ToNumber(s)) \/ LessOrEqualZero(ToNumber(s)))

-----------------------------------------------------------------------------
(* Map<string, ReviewState>: a sequence of entries in insertion order *)

MapHas(m, k) == \E i \in 1..Len(m) : m[i].key = k

\* Map.prototype.set: overwrite in place, or append
MapSet(m, k, v) ==
    IF MapHas(m, k)
    THEN [i \in 1..Len(m) |-> IF m[i].key = k THEN [key |-> k, value |-> v] ELSE m[i]]
    ELSE Append(m, [key |-> k, value |-> v])

\* Array.from(map.values())
MapValues(m) == [i \in 1..Len(m) |-> m[i].value]
MapKeys(m) == {m[i].key : i \in 1..Len(m)}

\* postedReviews.data.forEach(review => { if (review.user?.login != null) set(...) })
RECURSIVE ReviewPass(_, _)
ReviewPass(m, reviews) ==
    IF reviews = <<>> THEN m
    ELSE LET r == Head(reviews)
         IN  ReviewPass(IF r.login # NullLogin THEN MapSet(m, r.login, r.state) ELSE m,
                        Tail(reviews))

\* Variant of PendingPass that keeps the state of a login already in the map
RECURSIVE PendingPassKeepingPosted(_, _)
PendingPassKeepingPosted(m, users) ==
    IF users = <<>> THEN m
    ELSE PendingPassKeepingPosted(
             IF MapHas(m, Head(users)) THEN m ELSE MapSet(m, Head(users), Pending),
             Tail(users))

\* requestedReviewers.data.users.forEach(r => set(r.login, ReviewState.Pending))
RECURSIVE PendingPass(_, _)
PendingPass(m, users) ==
    IF users = <<>> THEN m
    ELSE PendingPass(MapSet(m, Head(users), Pending), Tail(users))

\* reviewStates.filter(s => s === state).length
CountState(states, state) == Cardinality({i \in 1..Len(states) : states[i] = state})

\* Variant of IsApproved that leaves out the changes-requested veto
IsApprovedWithoutVeto(m, required) ==
    IntGreaterOrEqual(CountState(MapValues(m), Approved), required)

\* approvesAmount >= requiredApprovesAmount && changesRequestedAmount === 0
IsApproved(m, required) ==
    /\ IntGreaterOrEqual(CountState(MapValues(m), Approved), required)
    /\ CountState(MapValues(m), ChangesRequested) = 0

\* Variant of BoolString that gives 'true' on both branches
BoolStringSameOnBothBranches(b) == "true"

\* setOutput's string for a boolean
BoolString(b) == IF b THEN "true" ELSE "false"

-----------------------------------------------------------------------------
(* main.ts: the Set of invited logins and the lead-coverage loop *)

\* Variant of InvitedReviewPass that adds the authors of approvals only
RECURSIVE InvitedReviewPassApprovedOnly(_, _)
InvitedReviewPassApprovedOnly(set, reviews) ==
    IF reviews = <<>> THEN set
    ELSE LET r == Head(reviews)
         IN  InvitedReviewPassApprovedOnly(
                 IF r.login # NullLogin /\ r.state = Approved THEN set \cup {r.login} ELSE set,
                 Tail(reviews))

\* postedReviews.data.forEach(review => { if (login != null) add(login) })
RECURSIVE InvitedReviewPass(_, _)
InvitedReviewPass(set, reviews) ==
    IF reviews = <<>> THEN set
    ELSE LET r == Head(reviews)
         IN  InvitedReviewPass(IF r.login # NullLogin THEN set \cup {r.login} ELSE set,
                               Tail(reviews))

\* pendingReviewers.data.users.forEach(reviewer => add(reviewer.login))
RECURSIVE InvitedPendingPass(_, _)
InvitedPendingPass(set, users) ==
    IF users = <<>> THEN set
    ELSE InvitedPendingPass(set \cup {Head(users)}, Tail(users))

\* Variant of NotFound that compares logins without regard to case
LowerCase(login) == IF login = "A" THEN "a" ELSE login
NotFoundIgnoringCase(set, reviewer) ==
    ~ \E r \in set : LowerCase(r) = LowerCase(reviewer)

\* Array.from(set).find(r => r === reviewer) == null
NotFound(set, reviewer) == ~ \E r \in set : r = reviewer

\* let ok = true; for (const reviewer of leads) { if (not found) { ok = false; break } }
RECURSIVE AreLeadReviewersInvited(_, _)
AreLeadReviewersInvited(set, leads) ==
    IF leads = <<>> THEN TRUE
    ELSE IF NotFound(set, Head(leads)) THEN FALSE
    ELSE AreLeadReviewersInvited(set, Tail(leads))

-----------------------------------------------------------------------------
(* run() *)

doesGithubEnvExist(env) ==
    env.token # "<null>" /\ env.repositoryPath # "<null>" /\ env.eventPath # "<null>"

\* Variant of isAcceptableAction that lets an absent action through
isAcceptableActionOrAbsent(action) ==
    action = "submitted" \/ action = "review_requested" \/ action = "<undefined>"

isAcceptableAction(action) == action = "submitted" \/ action = "review_requested"

\* Variant of BothReceived that resolves with the first response (Promise.race)
EitherReceived(posted, requested) == posted.status = "ok" \/ requested.status = "ok"

\* Promise.all resolves once both responses are there
BothReceived(posted, requested) == posted.status = "ok" /\ requested.status = "ok"

Init ==
    /\ variant \in Variants
    /\ pc = "start"
    /\ githubEnv = NoEnv
    /\ payload = NoPayload
    /\ amountInput = <<>>
    /\ requiredApprovesAmount = NoAmount
    /\ getContentResponse = NoContentResponse
    /\ leadReviewers = NoLeadReviewers
    /\ postedReviews = NoResponse
    /\ pendingReviewers = NoResponse
    /\ codeReviewProgress = <<>>
    /\ requestedReviewers = {}
    /\ verdict = "none"
    /\ log = <<>>

\* the catch block: setFailed(error.message), and run() returns
Catch(sofar) ==
    /\ log' = sofar \o <<SetFailed(ErrorMessage)>>
    /\ pc' = "done"

\* process.env is read and checked
ReadEnv ==
    /\ pc = "start"
    /\ \E env \in GithubEnvs :
        /\ githubEnv' = env
        /\ IF doesGithubEnvExist(env)
           THEN pc' = "payload" /\ log' = log
           ELSE pc' = "done" /\ log' = Append(log, SetFailed(EnvMessage))
    /\ UNCHANGED <<variant, payload, amountInput, requiredApprovesAmount, getContentResponse,
                   leadReviewers, postedReviews, pendingReviewers, codeReviewProgress,
                   requestedReviewers, verdict>>

\* part_001 80-107: the event file is read; PR check; action check;
\* getRequiredApprovesAmount(); listReviews is requested
ReadPayload1 ==
    /\ variant = "approve1"
    /\ pc = "payload"
    /\ \E p \in Payloads \cup {UnreadablePayload}, s \in AmountInputs :
        /\ payload' = p
        /\ IF ~p.readable THEN
               /\ Catch(log)
               /\ UNCHANGED <<amountInput, requiredApprovesAmount>>
           ELSE IF ~p.pull_request THEN
               /\ log' = Append(log, SetFailed(PrMessage))
               /\ pc' = "done"
               /\ UNCHANGED <<amountInput, requiredApprovesAmount>>
           ELSE IF isAcceptableAction(p.action) THEN
               /\ amountInput' = s
               /\ requiredApprovesAmount' = getRequiredApprovesAmount1(s)
               /\ log' = Append(log, Fetch("listReviews"))
               /\ pc' = "awaitReviews"
           ELSE
               /\ log' = Append(log, Info)
               /\ pc' = "done"
               /\ UNCHANGED <<amountInput, requiredApprovesAmount>>
    /\ UNCHANGED <<variant, githubEnv, getContentResponse, leadReviewers, postedReviews,
                   pendingReviewers, codeReviewProgress, requestedReviewers, verdict>>

\* part_002 80-101: the event file is read; PR check;
\* getRequiredApprovesAmount(); both lists are requested
ReadPayload2 ==
    /\ variant = "approve2"
    /\ pc = "payload"
    /\ \E p \in PayloadsWithoutAction \cup {UnreadablePayload}, s \in AmountInputs :
        /\ payload' = p
        /\ IF ~p.readable THEN
               /\ Catch(log)
               /\ UNCHANGED <<amountInput, requiredApprovesAmount>>
           ELSE IF ~p.pull_request THEN
               /\ log' = Append(log, SetFailed(PrMessage))
               /\ pc' = "done"
               /\ UNCHANGED <<amountInput, requiredApprovesAmount>>
           ELSE
               /\ amountInput' = s
               /\ requiredApprovesAmount' = getRequiredApprovesAmount2(s)
               /\ log' = log
                         \o (IF AmountFails2(s) THEN <<SetFailed(AmountMessage)>> ELSE <<>>)
                         \o <<Fetch("listReviews"), Fetch("listRequestedReviewers")>>
               /\ pc' = "awaitAll"
    /\ UNCHANGED <<variant, githubEnv, getContentResponse, leadReviewers, postedReviews,
                   pendingReviewers, codeReviewProgress, requestedReviewers, verdict>>

\* main.ts 57-77: context.payload; PR check; getContent is requested
ReadPayload3 ==
    /\ variant = "leads"
    /\ pc = "payload"
    /\ \E p \in PayloadsWithoutAction :
        /\ payload' = p
        /\ IF ~p.pull_request THEN
               /\ log' = Append(log, SetFailed(PrMessage))
               /\ pc' = "done"
           ELSE
               /\ log' = Append(log, Fetch("getContent"))
               /\ pc' = "awaitContent"
    /\ UNCHANGED <<variant, githubEnv, amountInput, requiredApprovesAmount, getContentResponse,
                   leadReviewers, postedReviews, pendingReviewers, codeReviewProgress,
                   requestedReviewers, verdict>>

\* part_001 109-137: both passes, the decision, setOutput, the summary
AggregateAndPublish(posted, requested, sofar) ==
    LET progress == PendingPass(ReviewPass(<<>>, posted.data), requested.data)
        isApproved == IsApproved(progress, requiredApprovesAmount)
    IN  /\ codeReviewProgress' = progress
        /\ verdict' = BoolString(isApproved)
        /\ log' = sofar \o <<SetOutput(IsApprovedOutput, BoolString(isApproved)), Step("report")>>
        /\ pc' = "done"

\* part_001 101-107: listReviews answers (or throws); listRequestedReviewers is requested
ReceiveReviews1 ==
    /\ variant = "approve1"
    /\ pc = "awaitReviews"
    /\ \E r \in ReviewResponses :
        /\ postedReviews' = r
        /\ IF r.status = "error"
           THEN Catch(Append(log, Response("listReviews")))
           ELSE /\ log' = log \o <<Response("listReviews"), Fetch("listRequestedReviewers")>>
                /\ pc' = "awaitRequested"
    /\ UNCHANGED <<variant, githubEnv, payload, amountInput, requiredApprovesAmount,
                   getContentResponse, leadReviewers, pendingReviewers, codeReviewProgress,
                   requestedReviewers, verdict>>

\* part_001 104-137: listRequestedReviewers answers (or throws); the rest of run()
ReceiveRequested1 ==
    /\ variant = "approve1"
    /\ pc = "awaitRequested"
    /\ \E r \in RequestedResponses :
        /\ pendingReviewers' = r
        /\ IF r.status = "error"
           THEN /\ Catch(Append(log, Response("listRequestedReviewers")))
                /\ UNCHANGED <<codeReviewProgress, verdict>>
           ELSE AggregateAndPublish(postedReviews, r,
                                    Append(log, Response("listRequestedReviewers")))
    /\ UNCHANGED <<variant, githubEnv, payload, amountInput, requiredApprovesAmount,
                   getContentResponse, leadReviewers, postedReviews, requestedReviewers>>

\* One of the two requests of a Promise.all answers.  A rejection rejects the
\* Promise.all at once and run() goes to its catch block; otherwise the response
\* is kept until the other one is there.
ReceiveReviewsAll(v) ==
    /\ variant = v
    /\ pc = "awaitAll"
    /\ postedReviews.status = "none"
    /\ \E r \in ReviewResponses :
        /\ postedReviews' = r
        /\ IF r.status = "error"
           THEN Catch(Append(log, Response("listReviews")))
           ELSE log' = Append(log, Response("listReviews")) /\ pc' = pc
    /\ UNCHANGED <<variant, githubEnv, payload, amountInput, requiredApprovesAmount,
                   getContentResponse, leadReviewers, pendingReviewers, codeReviewProgress,
                   requestedReviewers, verdict>>

ReceiveRequestedAll(v) ==
    /\ variant = v
    /\ pc = "awaitAll"
    /\ pendingReviewers.status = "none"
    /\ \E r \in RequestedResponses :
        /\ pendingReviewers' = r
        /\ IF r.status = "error"
           THEN Catch(Append(log, Response("listRequestedReviewers")))
           ELSE log' = Append(log, Response("listRequestedReviewers")) /\ pc' = pc
    /\ UNCHANGED <<variant, githubEnv, payload, amountInput, requiredApprovesAmount,
                   getContentResponse, leadReviewers, postedReviews, codeReviewProgress,
                   requestedReviewers, verdict>>

ReceiveReviews2 == ReceiveReviewsAll("approve2")
ReceiveRequested2 == ReceiveRequestedAll("approve2")
ReceiveReviews3 == ReceiveReviewsAll("leads")
ReceiveRequested3 == ReceiveRequestedAll("leads")

\* part_002 98-131: the Promise.all has resolved; the rest of run()
Resume2 ==
    /\ variant = "approve2"
    /\ pc = "awaitAll"
    /\ BothReceived(postedReviews, pendingReviewers)
    /\ AggregateAndPublish(postedReviews, pendingReviewers, log)
    /\ UNCHANGED <<variant, githubEnv, payload, amountInput, requiredApprovesAmount,
                   getContentResponse, leadReviewers, postedReviews, pendingReviewers,
                   requestedReviewers>>

\* main.ts 73-95: getContent answers (or throws); the content check, the
\* decoding and parsing, the Array check; both lists are requested.
\* Neither setFailed is followed by a return.
ReceiveContent ==
    /\ variant = "leads"
    /\ pc = "awaitContent"
    /\ \E c \in ContentResponses \cup {ErrorContentResponse} :
        /\ getContentResponse' = c
        /\ LET got == Append(log, Response("getContent"))
           IN  IF c.status = "error" THEN
                   /\ Catch(got)
                   /\ leadReviewers' = leadReviewers
               ELSE IF ~c.hasContent THEN
                   \* Buffer.from(undefined, undefined) throws a TypeError
                   /\ Catch(got \o <<SetFailed(ContentMessage), Step("decode")>>)
                   /\ leadReviewers' = leadReviewers
               ELSE IF c.parsed.kind \in {"syntaxError", "noReviewersKey"} THEN
                   \* parse() throws, or `.defaults` is read off undefined
                   /\ Catch(got \o <<Step("decode"), Step("parse")>>)
                   /\ leadReviewers' = leadReviewers
               ELSE
                   /\ leadReviewers' = c.parsed
                   /\ log' = got \o <<Step("decode"), Step("parse")>>
                             \o (IF c.parsed.kind # "list"
                                 THEN <<SetFailed(LeadsMessage)>> ELSE <<>>)
                             \o <<Fetch("listRequestedReviewers"), Fetch("listReviews")>>
                   /\ pc' = "awaitAll"
    /\ UNCHANGED <<variant, githubEnv, payload, amountInput, requiredApprovesAmount,
                   postedReviews, pendingReviewers, codeReviewProgress, requestedReviewers,
                   verdict>>

\* main.ts 97-127: the Promise.all has resolved; the Set is filled, the leads
\* are looked up, the output is set and the summary printed.  for...of over a
\* value that is not iterable throws before the output; a string is iterated
\* character by character and leadReviewers.forEach throws after the output.
Resume3 ==
    /\ variant = "leads"
    /\ pc = "awaitAll"
    /\ BothReceived(postedReviews, pendingReviewers)
    /\ LET invited == InvitedPendingPass(InvitedReviewPass({}, postedReviews.data),
                                         pendingReviewers.data)
           areInvited == AreLeadReviewersInvited(invited, leadReviewers.items)
           out == SetOutput(AreLeadsInvitedOutput, BoolString(areInvited))
       IN  /\ requestedReviewers' = invited
           /\ IF leadReviewers.kind = "nonIterable" THEN
                  /\ Catch(Append(log, Step("loop")))
                  /\ verdict' = verdict
              ELSE IF leadReviewers.kind = "string" THEN
                  /\ Catch(log \o <<Step("loop"), out>>)
                  /\ verdict' = BoolString(areInvited)
              ELSE
                  /\ log' = log \o <<Step("loop"), out, Step("report")>>
                  /\ pc' = "done"
                  /\ verdict' = BoolString(areInvited)
    /\ UNCHANGED <<variant, githubEnv, payload, amountInput, requiredApprovesAmount,
                   getContentResponse, leadReviewers, postedReviews, pendingReviewers,
                   codeReviewProgress>>

Next ==
    \/ ReadEnv
    \/ ReadPayload1
    \/ ReadPayload2
    \/ ReadPayload3
    \/ ReceiveReviews1
    \/ ReceiveRequested1
    \/ ReceiveReviews2
    \/ ReceiveRequested2
    \/ Resume2
    \/ ReceiveContent
    \/ ReceiveReviews3
    \/ ReceiveRequested3
    \/ Resume3

Spec == Init /\ [][Next]_vars

-----------------------------------------------------------------------------
(* getRequiredApprovesAmount() on its own, over every input string of up   *)
(* to MaxInputLen characters                                               *)

InitAmount ==
    /\ variant \in ApproveVariants
    /\ pc = "amount"
    /\ githubEnv = NoEnv
    /\ payload = NoPayload
    /\ amountInput \in AmountStrings
    /\ requiredApprovesAmount = NoAmount
    /\ getContentResponse = NoContentResponse
    /\ leadReviewers = NoLeadReviewers
    /\ postedReviews = NoResponse
    /\ pendingReviewers = NoResponse
    /\ codeReviewProgress = <<>>
    /\ requestedReviewers = {}
    /\ verdict = "none"
    /\ log = <<>>

GetAmount1 ==
    /\ variant = "approve1"
    /\ pc = "amount"
    /\ requiredApprovesAmount' = getRequiredApprovesAmount1(amountInput)
    /\ pc' = "done"
    /\ UNCHANGED <<variant, githubEnv, payload, amountInput, getContentResponse, leadReviewers,
                   postedReviews, pendingReviewers, codeReviewProgress, requestedReviewers,
                   verdict, log>>

GetAmount2 ==
    /\ variant = "approve2"
    /\ pc = "amount"
    /\ requiredApprovesAmount' = getRequiredApprovesAmount2(amountInput)
    /\ log' = IF AmountFails2(amountInput) THEN <<SetFailed(AmountMessage)>> ELSE <<>>
    /\ pc' = "done"
    /\ UNCHANGED <<variant, githubEnv, payload, amountInput, getContentResponse, leadReviewers,
                   postedReviews, pendingReviewers, codeReviewProgress, requestedReviewers,
                   verdict>>

NextAmount == GetAmount1 \/ GetAmount2

SpecAmount == InitAmount /\ [][NextAmount]_vars

-----------------------------------------------------------------------------
(* Vocabulary of the properties *)

IsOutputEntry(e) ==
    e.op = "setOutput:" \o IsApprovedOutput \/ e.op = "setOutput:" \o AreLeadsInvitedOutput
IsFailureEntry(e) == e.op = "setFailed"
IsFetchEntry(e) == e.op = "fetch"

OutputIndexes == {i \in 1..Len(log) : IsOutputEntry(log[i])}
FailureIndexes == {i \in 1..Len(log) : IsFailureEntry(log[i])}
FetchIndexes == {i \in 1..Len(log) : IsFetchEntry(log[i])}
Published(value) == \E i \in OutputIndexes : log[i].arg = value

\* what the specification says the aggregate holds for a login
LastReviewIndex(reviews, login) ==
    CHOOSE i \in 1..Len(reviews) :
        /\ reviews[i].login = login
        /\ \A j \in (i + 1)..Len(reviews) : reviews[j].login # login
HasReview(reviews, login) == \E i \in 1..Len(reviews) : reviews[i].login = login
ExpectedEntries(reviews, users) ==
    {[key |-> l, value |-> Pending] : l \in Range(users)}
    \cup {[key |-> l, value |-> reviews[LastReviewIndex(reviews, l)].state] :
             l \in {x \in Logins \ Range(users) : HasReview(reviews, x)}}

StatesOf(m, state) == {e \in Range(m) : e.value = state}
ExpectedDecision(m, required) ==
    /\ required.kind = "num"
    /\ Cardinality(StatesOf(m, Approved)) * Scale >= required.val
    /\ StatesOf(m, ChangesRequested) = {}
AsString(b) == IF b THEN "true" ELSE "false"

Aggregated == variant \in ApproveVariants /\ OutputIndexes # {}

-----------------------------------------------------------------------------
\* C1: the aggregate of the approval pipelines holds exactly one entry per
\* login; Pending for every login of the pending list (whatever that reviewer
\* posted), otherwise the state of the login's last posted review; reviews
\* without a login add nothing, and no other key appears.
ClaimC1_Aggregate ==
    Aggregated =>
        /\ IsInjective([i \in 1..Len(codeReviewProgress) |-> codeReviewProgress[i].key])
        /\ Range(codeReviewProgress)
               = ExpectedEntries(postedReviews.data, pendingReviewers.data)
        /\ NullLogin \notin MapKeys(codeReviewProgress)

WitnessC1 ==
    /\ Aggregated
    /\ \E l \in Range(pendingReviewers.data) :
          \E i \in 1..Len(postedReviews.data) :
              postedReviews.data[i] = [login |-> l, state |-> Approved]
    /\ HasReview(postedReviews.data, NullLogin)

\* C2: with a threshold >= 1, isApproved is published as true exactly when the
\* number of logins whose aggregate state is Approved reaches the threshold and
\* no login's state is ChangesRequested; other states count for neither.
ClaimC2_Decision ==
    (Aggregated /\ requiredApprovesAmount.kind = "num" /\ requiredApprovesAmount.val >= Scale) =>
        LET approved == {l \in Logins : [key |-> l, value |-> Approved] \in Range(codeReviewProgress)}
            blocking == {l \in Logins : [key |-> l, value |-> ChangesRequested] \in Range(codeReviewProgress)}
        IN  Published("true") <=>
                (Cardinality(approved) * Scale >= requiredApprovesAmount.val /\ blocking = {})

WitnessC2 ==
    /\ Aggregated
    /\ requiredApprovesAmount = Int2Num(1)
    /\ StatesOf(codeReviewProgress, Approved) # {}
    /\ StatesOf(codeReviewProgress, ChangesRequested) # {}
    /\ Published("false")

\* the logins that authored a posted review or have a pending request
InvitedLogins ==
    ({postedReviews.data[i].login : i \in 1..Len(postedReviews.data)} \ {NullLogin})
        \cup Range(pendingReviewers.data)

LeadsResumed == variant = "leads" /\ pc = "done" /\ BothReceived(postedReviews, pendingReviewers)

\* C3: for a list of lead reviewers, areLeadReviewersInvited is published, and
\* as true exactly when every login of the list authored some posted review or
\* has a pending request (exact string equality); so an empty list gives true
\* and duplicates change nothing.
ClaimC3_LeadCoverage ==
    (LeadsResumed /\ leadReviewers.kind = "list") =>
        /\ Cardinality(OutputIndexes) = 1
        /\ Published("true") <=>
               \A i \in 1..Len(leadReviewers.items) : leadReviewers.items[i] \in InvitedLogins
        /\ leadReviewers.items = <<>> => Published("true")

WitnessC3 ==
    /\ LeadsResumed
    /\ leadReviewers = [kind |-> "list", items |-> <<"a">>]
    /\ InvitedLogins = {"A"}
    /\ Published("false")

SequentialAggregate == PendingPass(ReviewPass(<<>>, postedReviews.data), pendingReviewers.data)

ResponseBefore(what, i) == \E j \in 1..(i - 1) : log[j] = Response(what)

ClaimC10_InvitedIsKeySet ==
    LeadsResumed =>
        /\ requestedReviewers = MapKeys(SequentialAggregate)
        /\ OutputIndexes # {} =>
               Published(AsString(Range(leadReviewers.items) \subseteq MapKeys(SequentialAggregate)))

WitnessC10 ==
    /\ LeadsResumed
    /\ leadReviewers = [kind |-> "list", items |-> <<"a">>]
    /\ postedReviews.data = <<[login |-> "a", state |-> ChangesRequested]>>
    /\ pendingReviewers.data = <<>>
    /\ Published("true")

\* a configured value that is a positive integer: digits only, above zero
IsPositiveIntegerInput(s) == s # <<>> /\ AllDigits(s) /\ DigitsValue(s) > 0

\* C4: the threshold handed to the decision is always a positive integer: the
\* configured value when that is a positive integer, and 1 when the input is
\* unset, empty or malformed (not numeric, zero, negative, fractional).
ClaimC4_ThresholdPositiveInteger ==
    (variant \in ApproveVariants /\ requiredApprovesAmount # NoAmount) =>
        /\ requiredApprovesAmount.kind = "num"
        /\ requiredApprovesAmount.val > 0
        /\ requiredApprovesAmount.val % Scale = 0
        /\ IF IsPositiveIntegerInput(amountInput)
           THEN requiredApprovesAmount = Int2Num(DigitsValue(amountInput))
           ELSE requiredApprovesAmount = Int2Num(1)

ConfigFailureIndexes ==
    {i \in FailureIndexes : log[i].arg \in {ContentMessage, LeadsMessage}}

\* C5: in the lead-reviewer pipeline nothing runs after the failure signal for
\* a malformed or unreadable config: no decoding or parsing, no fetch, no
\* lead-coverage loop, and the output is never published.
ClaimC5_AbortAfterConfigFailure ==
    \A i \in ConfigFailureIndexes :
        \A j \in (i + 1)..Len(log) :
            /\ ~IsOutputEntry(log[j])
            /\ log[j].op \notin {"step", "fetch", "response"}

\* C6: no invocation both raises a failure signal and publishes its output;
\* without the environment variables or the pull-request data no fetch is issued.
ClaimC6_FailureExcludesOutput ==
    /\ ~(FailureIndexes # {} /\ OutputIndexes # {})
    /\ (githubEnv # NoEnv /\ ~doesGithubEnvExist(githubEnv)) => FetchIndexes = {}
    /\ (payload.readable /\ ~payload.pull_request) => FetchIndexes = {}

PassedChecks ==
    /\ doesGithubEnvExist(githubEnv)
    /\ payload.readable
    /\ payload.pull_request
    /\ variant = "approve1" => payload.action \in {"submitted", "review_requested"}

FetchesSucceeded ==
    /\ BothReceived(postedReviews, pendingReviewers)
    /\ variant = "leads" => getContentResponse.status = "ok"

\* the verdict the published value has to encode
ComputedVerdict ==
    IF variant = "leads"
    THEN Range(leadReviewers.items) \subseteq requestedReviewers
    ELSE ExpectedDecision(codeReviewProgress, requiredApprovesAmount)

PublishedAtMostOnceAfterResponses ==
    /\ Cardinality(OutputIndexes) <= 1
    /\ \A i \in OutputIndexes :
          /\ ResponseBefore("listReviews", i)
          /\ ResponseBefore("listRequestedReviewers", i)
          /\ log[i].arg = AsString(ComputedVerdict)

Position ==
    CASE pc = "start" -> 0
      [] pc = "payload" -> 1
      [] pc \in {"awaitReviews", "awaitContent"} -> 2
      [] pc \in {"awaitRequested", "awaitAll"} -> 3
      [] pc = "done" -> 4

MovesForward ==
    \/ Position' > Position
    \/ Position' = Position /\ Len(log') > Len(log)

=============================================================================
